---- MODULE Spec2Model ----
(***************************************************************************)
(* Recurring-event expansion engine of the voice calendar: the in-memory   *)
(* storage (MemStorage / EnhancedMemStorage, server/storage.ts) and the    *)
(* relational storage (SupabaseStorage, server/supabaseStorage.ts).        *)
(*                                                                         *)
(* Time is counted in ticks since 2024-01-01T00:00 local time; a day has   *)
(* TicksPerDay ticks, so an instant carries a calendar day and a time of   *)
(* day.  The process time zone is one without daylight-saving shifts, so   *)
(* 24h of milliseconds and one calendar day are the same distance.         *)
(* The createdAt column plays no part in expansion and is left out.        *)
(***************************************************************************)
EXTENDS Integers, Sequences, FiniteSets, TLC

VARIABLES impl, now, events, eventExceptions, nextId, log, ret, loop, before, inflight

vars == <<impl, now, events, eventExceptions, nextId, log, ret, loop, before, inflight>>

(***************************************************************************)
(* Bound of the model: the number of steps that grow the state (an id      *)
(* handed out, a 'deleted' exception recorded, a tick of the clock).       *)
(***************************************************************************)
MaxWork == 3

(***************************************************************************)
(* Calendar arithmetic (JavaScript Date and date-fns).                     *)
(***************************************************************************)
TicksPerDay == 2
EpochYear == 2024

NoDate == -1
NoId == <<>>
Null == "null"

Max(a, b) == IF a >= b THEN a ELSE b
Min(a, b) == IF a <= b THEN a ELSE b

IsLeap(y) == (y % 4 = 0 /\ y % 100 # 0) \/ y % 400 = 0

DaysInMonth(y, m) ==
  IF m = 2 THEN (IF IsLeap(y) THEN 29 ELSE 28)
  ELSE IF m \in {4, 6, 9, 11} THEN 30 ELSE 31

DaysInYear(y) == IF IsLeap(y) THEN 366 ELSE 365

RECURSIVE DaysBeforeYear(_)
DaysBeforeYear(y) ==
  IF y <= EpochYear THEN 0 ELSE DaysBeforeYear(y - 1) + DaysInYear(y - 1)

RECURSIVE DaysBeforeMonth(_, _)
DaysBeforeMonth(y, m) ==
  IF m <= 1 THEN 0 ELSE DaysBeforeMonth(y, m - 1) + DaysInMonth(y, m - 1)

\* Date(y, m, d): month and day overflow roll over into the following
\* months, as the Date setters do.
MakeDay(y, m, d) ==
  LET yy == y + ((m - 1) \div 12)
      mm == ((m - 1) % 12) + 1
  IN  DaysBeforeYear(yy) + DaysBeforeMonth(yy, mm) + (d - 1)

RECURSIVE YearOfDay(_, _)
YearOfDay(dn, y) ==
  IF dn < DaysInYear(y) THEN <<y, dn>> ELSE YearOfDay(dn - DaysInYear(y), y + 1)

RECURSIVE MonthOfDay(_, _, _)
MonthOfDay(dn, y, m) ==
  IF dn < DaysInMonth(y, m) THEN <<m, dn + 1>>
  ELSE MonthOfDay(dn - DaysInMonth(y, m), y, m + 1)

\* getFullYear / getMonth (1-based here) / getDate of an instant.
ToYMD(t) ==
  LET yd == YearOfDay(t \div TicksPerDay, EpochYear)
      md == MonthOfDay(yd[2], yd[1], 1)
  IN  <<yd[1], md[1], md[2]>>

TimeOfDay(t) == t % TicksPerDay

\* A day key that keeps the time of day (the instant itself).
toDateString_instant(t) == t

\* Date.prototype.toDateString: the calendar day, without the time of day.
toDateString(t) == ToYMD(t)

\* date-fns format(date, 'yyyy-MM-dd').
format(t) == ToYMD(t)

\* next.setDate(next.getDate() + n)
setDatePlus(t, n) ==
  LET c == ToYMD(t) IN MakeDay(c[1], c[2], c[3] + n) * TicksPerDay + TimeOfDay(t)

\* next.setMonth(next.getMonth() + n): the day of month is kept and
\* overflows into the next month when the target month is shorter.
setMonthPlus(t, n) ==
  LET c == ToYMD(t) IN MakeDay(c[1], c[2] + n, c[3]) * TicksPerDay + TimeOfDay(t)

\* next.setFullYear(next.getFullYear() + n)
setFullYearPlus(t, n) ==
  LET c == ToYMD(t) IN MakeDay(c[1] + n, c[2], c[3]) * TicksPerDay + TimeOfDay(t)

addDays(t, n) == setDatePlus(t, n)

addWeeks(t, n) == addDays(t, n * 7)

\* date-fns addMonths: the day of month is clamped to the last day of the
\* target month.
addMonths(t, n) ==
  LET c  == ToYMD(t)
      yy == c[1] + ((c[2] + n - 1) \div 12)
      mm == ((c[2] + n - 1) % 12) + 1
  IN  MakeDay(yy, mm, Min(c[3], DaysInMonth(yy, mm))) * TicksPerDay + TimeOfDay(t)

addYears(t, n) == addMonths(t, n * 12)

\* parseInt of the recurringWeeks texts that occur.
parseInt(s) ==
  CASE s = "0" -> 0 [] s = "1" -> 1 [] s = "2" -> 2 [] s = "3" -> 3
    [] s = "4" -> 4 [] s = "8" -> 8 [] s = "12" -> 12


(***************************************************************************)
(* Inputs of the operations.                                               *)
(***************************************************************************)
\* The instant on day number day (counted from the epoch) at time of day tick.
At(day, tick) == day * TicksPerDay + tick

\* InsertEvent drafts given to createEvent.
Drafts ==
  { [title |-> "standup", description |-> Null,
     startDate |-> At(2, 0), endDate |-> At(2, 1),
     isRecurring |-> TRUE, recurringPattern |-> "weekly", recurringWeeks |-> "2"],
    [title |-> "review", description |-> Null,
     startDate |-> At(0, 0), endDate |-> NoDate,
     isRecurring |-> TRUE, recurringPattern |-> "monthly", recurringWeeks |-> "indefinite"] }

\* Partial<InsertEvent> values given to updateEvent.
Updates == { [title |-> "renamed"] }

\* Partial<InsertEvent> values given to updateRecurringInstance.
InstanceUpdates == { [title |-> "moved", startDate |-> At(3, 1)] }

\* instanceDate values given to deleteRecurringInstance / updateRecurringInstance.
InstanceDates == { At(9, 1) }

\* (startDate, endDate) pairs given to getEventsByDateRange.
Windows == { <<At(0, 0), At(16, 0)>> }

(***************************************************************************)
(* Helpers on sequences.                                                   *)
(***************************************************************************)
Range(s) == { s[i] : i \in DOMAIN s }

\* The array handed back as it was filled, without the sort.
SortByStartDate_asStored(s) == s

\* Array.prototype.sort((a, b) => a.startDate - b.startDate): stable, so an
\* element lands behind the elements with an earlier startDate and behind
\* the elements with the same startDate that came before it.
SortByStartDate(s) ==
  LET ranked == { <<Cardinality({ j \in DOMAIN s :
                        \/ s[j].startDate < s[i].startDate
                        \/ s[j].startDate = s[i].startDate /\ j <= i }), i>> :
                    i \in DOMAIN s }
  IN  [k \in 1..Len(s) |-> s[(CHOOSE p \in ranked : p[1] = k)[2]]]

RECURSIVE Flatten(_)
Flatten(ss) == IF ss = <<>> THEN <<>> ELSE Head(ss) \o Flatten(Tail(ss))

\* { ...a, ...b }
Spread(a, b) == [f \in DOMAIN a |-> IF f \in DOMAIN b THEN b[f] ELSE a[f]]

\* u.f ?? dflt
Coalesce(u, f, dflt) == IF f \in DOMAIN u THEN u[f] ELSE dflt

\* this.events.get(id) / select ... where id = ...
HasEvent(id) == \E i \in DOMAIN events : events[i].id = id
getEvent(id) == events[CHOOSE i \in DOMAIN events : events[i].id = id]

\* randomUUID() / gen_random_uuid(): an id never handed out before.
\* Steps taken so far that count against MaxWork.
Work ==
  (nextId - 1) + now
  + Cardinality({ i \in DOMAIN eventExceptions : eventExceptions[i].type = "deleted" })

FreshId == <<nextId>>
StoredIds == { <<n>> : n \in 1..(nextId - 1) }

(***************************************************************************)
(* MemStorage (read path inherited by the exported storage object).        *)
(***************************************************************************)
getRecurrenceInterval(pattern) ==
  CASE pattern = "daily" -> 1
    [] pattern = "weekly" -> 7
    [] pattern = "monthly" -> 30
    [] pattern = "yearly" -> 365
    [] OTHER -> 7

\* The event pushed by pass i of the for loop of generateRecurringEvents.
MemStorage_recurringEvent(baseEvent, i) ==
  LET baseDate == baseEvent.startDate
      p == baseEvent.recurringPattern
      newDate == CASE p = "daily" -> setDatePlus(baseDate, i)
                   [] p = "weekly" -> setDatePlus(baseDate, i * 7)
                   [] p = "monthly" -> setMonthPlus(baseDate, i)
                   [] p = "yearly" -> setFullYearPlus(baseDate, i)
  IN  [id |-> <<baseEvent.id[1], "recur", i>>,
       title |-> baseEvent.title,
       description |-> baseEvent.description,
       startDate |-> newDate,
       endDate |-> IF baseEvent.endDate # NoDate
                   THEN newDate + (baseEvent.endDate - baseDate)
                   ELSE NoDate,
       isRecurring |-> baseEvent.isRecurring,
       recurringPattern |-> baseEvent.recurringPattern,
       recurringWeeks |-> baseEvent.recurringWeeks,
       parentEventId |-> NoId,
       originalDate |-> NoDate]

\* A pattern outside the four known ones takes the default branch of the
\* switch (continue) in every pass, so nothing is pushed.
MemStorage_generateRecurringEvents(baseEvent, daysAhead) ==
  LET pat == IF baseEvent.recurringPattern = Null THEN "weekly"
             ELSE baseEvent.recurringPattern
      n == daysAhead \div getRecurrenceInterval(pat)
  IN  IF baseEvent.recurringPattern \in {"daily", "weekly", "monthly", "yearly"}
      THEN [i \in 1..n |-> MemStorage_recurringEvent(baseEvent, i)]
      ELSE <<>>

MemStorage_getEventsByDateRange(startDate, endDate) ==
  LET perEvent(event) ==
        (IF event.startDate >= startDate /\ event.startDate <= endDate
         THEN <<event>> ELSE <<>>)
        \o
        (IF event.isRecurring /\ event.recurringPattern # Null
         THEN SelectSeq(MemStorage_generateRecurringEvents(event, 365),
                        LAMBDA r : r.startDate >= startDate /\ r.startDate <= endDate)
         ELSE <<>>)
  IN  SortByStartDate(Flatten([i \in DOMAIN events |-> perEvent(events[i])]))

(***************************************************************************)
(* EnhancedMemStorage.                                                     *)
(***************************************************************************)
maxIterations == 500

Mem_getNextRecurrenceDate(currentDate, pattern) ==
  CASE pattern = "daily" -> setDatePlus(currentDate, 1)
    [] pattern = "weekly" -> setDatePlus(currentDate, 7)
    [] pattern = "monthly" -> setMonthPlus(currentDate, 1)
    [] pattern = "yearly" -> setFullYearPlus(currentDate, 1)
    [] OTHER -> setDatePlus(currentDate, 7)

Mem_instance(baseEvent, currentDate) ==
  LET timeDiff == IF baseEvent.endDate # NoDate
                  THEN baseEvent.endDate - baseEvent.startDate ELSE 0
  IN  [baseEvent EXCEPT
         !.id = <<baseEvent.id[1], "recur", currentDate>>,
         !.startDate = currentDate,
         !.endDate = IF timeDiff > 0 THEN currentDate + timeDiff ELSE NoDate,
         !.parentEventId = baseEvent.id,
         !.originalDate = currentDate]

\* The while loop of generateRecurringInstances.
RECURSIVE Mem_instanceLoop(_, _, _, _, _, _)
Mem_instanceLoop(baseEvent, currentDate, seriesEndDate, deletedDates, modifiedDates, iterationCount) ==
  IF ~(currentDate < seriesEndDate /\ iterationCount < maxIterations) THEN <<>>
  ELSE LET dateString == toDateString(currentDate)
           next == Mem_getNextRecurrenceDate(currentDate, baseEvent.recurringPattern)
           rest == Mem_instanceLoop(baseEvent, next, seriesEndDate, deletedDates,
                                    modifiedDates, iterationCount + 1)
       IN  IF dateString \in deletedDates \/ dateString \in modifiedDates
           THEN rest
           ELSE <<Mem_instance(baseEvent, currentDate)>> \o rest

\* Series end computed with weeksToAdd days instead of weeksToAdd weeks.
Mem_seriesEndDate_days(baseEvent, endDate) ==
  IF baseEvent.recurringWeeks # Null /\ baseEvent.recurringWeeks # "indefinite"
  THEN Min(baseEvent.startDate + parseInt(baseEvent.recurringWeeks) * TicksPerDay,
           endDate)
  ELSE endDate

Mem_seriesEndDate(baseEvent, endDate) ==
  IF baseEvent.recurringWeeks # Null /\ baseEvent.recurringWeeks # "indefinite"
  THEN Min(baseEvent.startDate + parseInt(baseEvent.recurringWeeks) * 7 * TicksPerDay,
           endDate)
  ELSE endDate

Mem_generateRecurringInstances(baseEvent, startDate, endDate, deletedDates, modifiedDates) ==
  Mem_instanceLoop(baseEvent, Max(baseEvent.startDate, startDate),
                   Mem_seriesEndDate(baseEvent, endDate),
                   deletedDates, modifiedDates, 0)

\* The exceptions of every parent taken for those of id.
Mem_exceptionDates_anyParent(id, type) ==
  { toDateString(eventExceptions[i].exceptionDate) :
      i \in { j \in DOMAIN eventExceptions : eventExceptions[j].type = type } }

\* this.eventExceptions.get(id) filtered by type and mapped to the day key.
Mem_exceptionDates(id, type) ==
  { toDateString(eventExceptions[i].exceptionDate) :
      i \in { j \in DOMAIN eventExceptions :
                /\ eventExceptions[j].parentEventId = id
                /\ eventExceptions[j].type = type } }

Mem_expandRecurringEvents(baseEvents) ==
  LET endDate == now + 6 * 30 * TicksPerDay
      perEvent(event) ==
        IF ~event.isRecurring THEN <<event>>
        ELSE Mem_generateRecurringInstances(event, now, endDate,
               Mem_exceptionDates(event.id, "deleted"),
               Mem_exceptionDates(event.id, "modified"))
  IN  SortByStartDate(Flatten([i \in DOMAIN baseEvents |-> perEvent(baseEvents[i])]))

(***************************************************************************)
(* SupabaseStorage read path.                                              *)
(***************************************************************************)
Supabase_getNextRecurrenceDate(currentDate, pattern) ==
  CASE pattern = "daily" -> addDays(currentDate, 1)
    [] pattern = "weekly" -> addWeeks(currentDate, 1)
    [] pattern = "monthly" -> addMonths(currentDate, 1)
    [] pattern = "yearly" -> addYears(currentDate, 1)
    [] OTHER -> addWeeks(currentDate, 1)

Supabase_instance(baseEvent, currentDate) ==
  LET timeDiff == (IF baseEvent.endDate # NoDate THEN baseEvent.endDate
                   ELSE baseEvent.startDate) - baseEvent.startDate
  IN  [baseEvent EXCEPT
         !.id = <<baseEvent.id[1], "recur", format(currentDate)>>,
         !.startDate = currentDate,
         !.endDate = IF baseEvent.endDate # NoDate THEN currentDate + timeDiff
                     ELSE NoDate,
         !.parentEventId = baseEvent.id,
         !.originalDate = currentDate]

\* The while loop of generateRecurringInstances.
RECURSIVE Supabase_instanceLoop(_, _, _, _, _)
Supabase_instanceLoop(baseEvent, currentDate, seriesEndDate, deletedDates, modifiedDates) ==
  IF ~(currentDate < seriesEndDate) THEN <<>>
  ELSE LET dateKey == format(currentDate)
           next == Supabase_getNextRecurrenceDate(currentDate, baseEvent.recurringPattern)
           rest == Supabase_instanceLoop(baseEvent, next, seriesEndDate,
                                         deletedDates, modifiedDates)
       IN  IF dateKey \in deletedDates THEN rest
           ELSE IF dateKey \in modifiedDates THEN rest
           ELSE <<Supabase_instance(baseEvent, currentDate)>> \o rest

Supabase_seriesEndDate(baseEvent, endDate) ==
  IF baseEvent.recurringWeeks # Null /\ baseEvent.recurringWeeks # "indefinite"
  THEN Min(addWeeks(baseEvent.startDate, parseInt(baseEvent.recurringWeeks)), endDate)
  ELSE endDate

Supabase_exceptionDates(exceptions, type) ==
  { format(ex.exceptionDate) : ex \in { x \in exceptions : x.type = type } }

Supabase_generateRecurringInstances(baseEvent, startDate, endDate, exceptions) ==
  Supabase_instanceLoop(baseEvent, Max(baseEvent.startDate, startDate),
                        Supabase_seriesEndDate(baseEvent, endDate),
                        Supabase_exceptionDates(exceptions, "deleted"),
                        Supabase_exceptionDates(exceptions, "modified"))

\* expandedEvents after the for loop: the exceptions are selected and every
\* event of dbEvents is pushed or expanded.
Supabase_expandedEvents(dbEvents, startDate, endDate) ==
  LET exceptionMap(id) == { ex \in Range(eventExceptions) : ex.parentEventId = id }
      perEvent(event) ==
        IF ~event.isRecurring THEN <<event>>
        ELSE Supabase_generateRecurringInstances(event, startDate, endDate,
                                                 exceptionMap(event.id))
  IN  Flatten([i \in DOMAIN dbEvents |-> perEvent(dbEvents[i])])

\* select from events where is_recurring = false and parent_event_id is not null
Supabase_selectModifiedEvents ==
  SelectSeq(events, LAMBDA e : ~e.isRecurring /\ e.parentEventId # NoId)

Supabase_expandRecurringEvents(dbEvents, startDate, endDate) ==
  SortByStartDate(Supabase_expandedEvents(dbEvents, startDate, endDate)
                  \o Supabase_selectModifiedEvents)

\* select().from(events).orderBy(events.startDate)
Supabase_selectEvents == SortByStartDate(events)

\* The range condition with lt(events.startDate, endDate) for its upper end.
Supabase_selectEventsInRange_open(startDate, endDate) ==
  SortByStartDate(SelectSeq(events,
    LAMBDA e : e.startDate >= startDate /\ e.startDate < endDate))

Supabase_selectEventsInRange(startDate, endDate) ==
  SortByStartDate(SelectSeq(events,
    LAMBDA e : e.startDate >= startDate /\ e.startDate <= endDate))

(***************************************************************************)
(* Operations.  log holds the most recent read answered since the last     *)
(* write (empty when a write came last), preceded by the read before it    *)
(* when that one was the same call at the same clock value.  ret holds     *)
(* what the last call handed back when it was a write.  before holds what  *)
(* getEvents() answered at the moment deleteRecurringInstance was called,  *)
(* when that was the last call.                                            *)
(***************************************************************************)
LastRead == log[Len(log)]

Logged(op, args, result) ==
  LET entry == [op |-> op, args |-> args, at |-> now, ret |-> result]
  IN  IF log # <<>> /\ LastRead.op = op /\ LastRead.args = args /\ LastRead.at = now
      THEN <<LastRead, entry>>
      ELSE <<entry>>

\* What the last call, when it was a write, handed back to its caller: the
\* value it returned, or threw = TRUE when it threw instead.
Returned(op, args, threw, value) ==
  <<[op |-> op, args |-> args, threw |-> threw, value |-> value]>>

\* The status app.delete("/api/events/:id") answers with when the request
\* carries instanceDate, given how deleteRecurringInstance came back.
DeleteInstanceRoute_status(outcome) ==
  IF outcome.threw THEN 500
  ELSE IF outcome.value THEN 204
  ELSE 404

\* No call of the storage is suspended at an await.
NoCalls == [reader |-> [pc |-> "idle"], writer |-> [pc |-> "idle"]]

\* The loop of generateRecurringInstances is not being stepped.
NoLoop == [pc |-> "idle"]

RemoveEvent(id) == SelectSeq(events, LAMBDA e : e.id # id)

ReplaceEvent(id, ev) ==
  [i \in DOMAIN events |-> IF events[i].id = id THEN ev ELSE events[i]]

NewEvent(id, d) ==
  [id |-> id, title |-> d.title, description |-> d.description,
   startDate |-> d.startDate, endDate |-> d.endDate,
   isRecurring |-> d.isRecurring, recurringPattern |-> d.recurringPattern,
   recurringWeeks |-> d.recurringWeeks, parentEventId |-> NoId,
   originalDate |-> NoDate]

\* The new event built as a copy of the parent ({ ...parentEvent, ... })
\* whose recurrence fields are not reset.
ModifiedEvent_spread(id, parentEvent, instanceDate, updates) ==
  [parentEvent EXCEPT
     !.id = id,
     !.title = Coalesce(updates, "title", parentEvent.title),
     !.description = Coalesce(updates, "description", parentEvent.description),
     !.startDate = Coalesce(updates, "startDate", instanceDate),
     !.endDate = Coalesce(updates, "endDate", parentEvent.endDate),
     !.parentEventId = parentEvent.id,
     !.originalDate = instanceDate]

ModifiedEvent(id, parentEvent, instanceDate, updates) ==
  [id |-> id,
   title |-> Coalesce(updates, "title", parentEvent.title),
   description |-> Coalesce(updates, "description", parentEvent.description),
   startDate |-> Coalesce(updates, "startDate", instanceDate),
   endDate |-> Coalesce(updates, "endDate", parentEvent.endDate),
   isRecurring |-> FALSE, recurringPattern |-> Null, recurringWeeks |-> Null,
   parentEventId |-> parentEvent.id, originalDate |-> instanceDate]

Exception(parentEventId, instanceDate, type, modifiedEventId) ==
  [parentEventId |-> parentEventId, exceptionDate |-> instanceDate,
   type |-> type, modifiedEventId |-> modifiedEventId]

MemStorage_createEvent(insertEvent) ==
  /\ impl = "mem"
  /\ Work < MaxWork
  /\ events' = Append(events, NewEvent(FreshId, insertEvent))
  /\ nextId' = nextId + 1
  /\ log' = <<>>
  /\ ret' = Returned("createEvent", <<insertEvent>>, FALSE, NewEvent(FreshId, insertEvent))
  /\ before' = <<>>
  /\ UNCHANGED <<impl, loop, inflight, now, eventExceptions>>

MemStorage_updateEvent(id, updateEvent) ==
  /\ impl = "mem"
  /\ IF HasEvent(id)
     THEN events' = ReplaceEvent(id, Spread(getEvent(id), updateEvent))
     ELSE events' = events
  /\ log' = <<>>
  /\ ret' = Returned("updateEvent", <<id, updateEvent>>, FALSE,
               IF HasEvent(id) THEN Spread(getEvent(id), updateEvent) ELSE Null)
  /\ before' = <<>>
  /\ UNCHANGED <<impl, loop, inflight, now, eventExceptions, nextId>>

MemStorage_deleteEvent(id) ==
  /\ impl = "mem"
  /\ events' = RemoveEvent(id)
  /\ log' = <<>>
  /\ ret' = Returned("deleteEvent", <<id>>, FALSE, HasEvent(id))
  /\ before' = <<>>
  /\ UNCHANGED <<impl, loop, inflight, now, eventExceptions, nextId>>

\* A delete of one occurrence that takes the master out of the store as well.
Mem_deleteRecurringInstance_series(parentEventId, instanceDate) ==
  /\ impl = "mem"
  /\ Work < MaxWork
  /\ eventExceptions' =
       Append(eventExceptions, Exception(parentEventId, instanceDate, "deleted", NoId))
  /\ events' = RemoveEvent(parentEventId)
  /\ log' = <<>>
  /\ ret' = Returned("deleteRecurringInstance", <<parentEventId, instanceDate>>, FALSE, TRUE)
  /\ before' = Mem_expandRecurringEvents(events)
  /\ UNCHANGED <<impl, loop, inflight, now, nextId>>

Mem_deleteRecurringInstance(parentEventId, instanceDate) ==
  /\ impl = "mem"
  /\ Work < MaxWork
  /\ eventExceptions' =
       Append(eventExceptions, Exception(parentEventId, instanceDate, "deleted", NoId))
  /\ log' = <<>>
  /\ ret' = Returned("deleteRecurringInstance", <<parentEventId, instanceDate>>, FALSE, TRUE)
  /\ before' = Mem_expandRecurringEvents(events)
  /\ UNCHANGED <<impl, loop, inflight, now, events, nextId>>

\* An update that records the exception before it looks the parent up.
Mem_updateRecurringInstance_blind(parentEventId, instanceDate, updates) ==
  /\ impl = "mem"
  /\ Work < MaxWork
  /\ IF ~HasEvent(parentEventId)
     THEN /\ eventExceptions' = Append(eventExceptions,
                 Exception(parentEventId, instanceDate, "modified", NoId))
          /\ UNCHANGED <<events, nextId>>
     ELSE /\ events' = Append(events,
                 ModifiedEvent(FreshId, getEvent(parentEventId), instanceDate, updates))
          /\ eventExceptions' = Append(eventExceptions,
                 Exception(parentEventId, instanceDate, "modified", FreshId))
          /\ nextId' = nextId + 1
  /\ log' = <<>>
  /\ ret' = Returned("updateRecurringInstance", <<parentEventId, instanceDate, updates>>, FALSE,
               IF ~HasEvent(parentEventId) THEN Null
               ELSE ModifiedEvent(FreshId, getEvent(parentEventId), instanceDate, updates))
  /\ before' = <<>>
  /\ UNCHANGED <<impl, loop, inflight, now>>

Mem_updateRecurringInstance(parentEventId, instanceDate, updates) ==
  /\ impl = "mem"
  /\ Work < MaxWork
  /\ IF ~HasEvent(parentEventId)
     THEN UNCHANGED <<events, eventExceptions, nextId>>
     ELSE /\ events' = Append(events,
                 ModifiedEvent(FreshId, getEvent(parentEventId), instanceDate, updates))
          /\ eventExceptions' = Append(eventExceptions,
                 Exception(parentEventId, instanceDate, "modified", FreshId))
          /\ nextId' = nextId + 1
  /\ log' = <<>>
  /\ ret' = Returned("updateRecurringInstance", <<parentEventId, instanceDate, updates>>, FALSE,
               IF ~HasEvent(parentEventId) THEN Null
               ELSE ModifiedEvent(FreshId, getEvent(parentEventId), instanceDate, updates))
  /\ before' = <<>>
  /\ UNCHANGED <<impl, loop, inflight, now>>

\* A read whose cursor is the stored startDate object itself and is advanced
\* in place, so the read moves the stored master.
Mem_getEvents_sharedCursor ==
  /\ impl = "mem"
  /\ log' = Logged("getEvents", <<>>, Mem_expandRecurringEvents(events))
  /\ events' = [i \in DOMAIN events |->
       IF events[i].isRecurring
       THEN [events[i] EXCEPT !.startDate =
               Mem_getNextRecurrenceDate(@, events[i].recurringPattern)]
       ELSE events[i]]
  /\ ret' = <<>>
  /\ before' = <<>>
  /\ UNCHANGED <<impl, loop, inflight, now, eventExceptions, nextId>>

Mem_getEvents ==
  /\ impl = "mem"
  /\ log' = Logged("getEvents", <<>>, Mem_expandRecurringEvents(events))
  /\ ret' = <<>>
  /\ before' = <<>>
  /\ UNCHANGED <<impl, loop, inflight, now, events, eventExceptions, nextId>>

Mem_getEventsByDateRange(startDate, endDate) ==
  /\ impl = "mem"
  /\ log' = Logged("getEventsByDateRange", <<startDate, endDate>>,
                   MemStorage_getEventsByDateRange(startDate, endDate))
  /\ ret' = <<>>
  /\ before' = <<>>
  /\ UNCHANGED <<impl, loop, inflight, now, events, eventExceptions, nextId>>

Supabase_createEvent(insertEvent) ==
  /\ impl = "supabase"
  /\ Work < MaxWork
  /\ events' = Append(events, NewEvent(FreshId, insertEvent))
  /\ nextId' = nextId + 1
  /\ log' = <<>>
  /\ ret' = Returned("createEvent", <<insertEvent>>, FALSE, NewEvent(FreshId, insertEvent))
  /\ before' = <<>>
  /\ UNCHANGED <<impl, loop, inflight, now, eventExceptions>>

Supabase_updateEvent(id, updateEvent) ==
  /\ impl = "supabase"
  /\ IF HasEvent(id)
     THEN events' = ReplaceEvent(id, Spread(getEvent(id), updateEvent))
     ELSE events' = events
  /\ log' = <<>>
  /\ ret' = Returned("updateEvent", <<id, updateEvent>>, FALSE,
               IF HasEvent(id) THEN Spread(getEvent(id), updateEvent) ELSE Null)
  /\ before' = <<>>
  /\ UNCHANGED <<impl, loop, inflight, now, eventExceptions, nextId>>

\* delete from events; event_exceptions rows that reference the event by
\* parent_event_id or modified_event_id go with it (onDelete: 'cascade').
Supabase_deleteEvent(id) ==
  /\ impl = "supabase"
  /\ events' = RemoveEvent(id)
  /\ eventExceptions' = SelectSeq(eventExceptions,
       LAMBDA ex : ex.parentEventId # id /\ ex.modifiedEventId # id)
  /\ log' = <<>>
  /\ ret' = Returned("deleteEvent", <<id>>, FALSE, HasEvent(id))
  /\ before' = <<>>
  /\ UNCHANGED <<impl, loop, inflight, now, nextId>>

\* The insert fails on the parent_event_id foreign key when the parent row
\* does not exist; the call then throws and nothing is written.
Supabase_deleteRecurringInstance(parentEventId, instanceDate) ==
  /\ impl = "supabase"
  /\ Work < MaxWork
  /\ IF HasEvent(parentEventId)
     THEN eventExceptions' = Append(eventExceptions,
            Exception(parentEventId, instanceDate, "deleted", NoId))
     ELSE eventExceptions' = eventExceptions
  /\ log' = <<>>
  /\ ret' = Returned("deleteRecurringInstance", <<parentEventId, instanceDate>>,
               ~HasEvent(parentEventId), HasEvent(parentEventId))
  /\ before' =
       Supabase_expandRecurringEvents(Supabase_selectEvents, now, addMonths(now, 6))
  /\ UNCHANGED <<impl, loop, inflight, now, events, nextId>>

Supabase_updateRecurringInstance(parentEventId, instanceDate, updates) ==
  /\ impl = "supabase"
  /\ Work < MaxWork
  /\ IF ~HasEvent(parentEventId)
     THEN UNCHANGED <<events, eventExceptions, nextId>>
     ELSE /\ events' = Append(events,
                 ModifiedEvent(FreshId, getEvent(parentEventId), instanceDate, updates))
          /\ eventExceptions' = Append(eventExceptions,
                 Exception(parentEventId, instanceDate, "modified", FreshId))
          /\ nextId' = nextId + 1
  /\ log' = <<>>
  /\ ret' = Returned("updateRecurringInstance", <<parentEventId, instanceDate, updates>>, FALSE,
               IF ~HasEvent(parentEventId) THEN Null
               ELSE ModifiedEvent(FreshId, getEvent(parentEventId), instanceDate, updates))
  /\ before' = <<>>
  /\ UNCHANGED <<impl, loop, inflight, now>>

Supabase_getEvents ==
  /\ impl = "supabase"
  /\ log' = Logged("getEvents", <<>>,
       Supabase_expandRecurringEvents(Supabase_selectEvents, now, addMonths(now, 6)))
  /\ ret' = <<>>
  /\ before' = <<>>
  /\ UNCHANGED <<impl, loop, inflight, now, events, eventExceptions, nextId>>

Supabase_getEventsByDateRange(startDate, endDate) ==
  /\ impl = "supabase"
  /\ log' = Logged("getEventsByDateRange", <<startDate, endDate>>,
       Supabase_expandRecurringEvents(Supabase_selectEventsInRange(startDate, endDate),
                                      startDate, endDate))
  /\ ret' = <<>>
  /\ before' = <<>>
  /\ UNCHANGED <<impl, loop, inflight, now, events, eventExceptions, nextId>>

\* Time passes between requests.
Tick ==
  /\ Work < MaxWork
  /\ now' = now + 1
  /\ ret' = <<>>
  /\ before' = <<>>
  /\ UNCHANGED <<impl, loop, inflight, events, eventExceptions, nextId, log>>

Init ==
  /\ impl \in {"mem", "supabase"}
  /\ now = 0
  /\ events = <<>>
  /\ eventExceptions = <<>>
  /\ nextId = 1
  /\ log = <<>>
  /\ ret = <<>>
  /\ loop = NoLoop
  /\ before = <<>>
  /\ inflight = NoCalls

Next ==
  \/ \E d \in Drafts : MemStorage_createEvent(d)
  \/ \E id \in StoredIds, u \in Updates : MemStorage_updateEvent(id, u)
  \/ \E id \in StoredIds : MemStorage_deleteEvent(id)
  \/ \E id \in StoredIds, d \in InstanceDates : Mem_deleteRecurringInstance(id, d)
  \/ \E id \in StoredIds, d \in InstanceDates, u \in InstanceUpdates :
       Mem_updateRecurringInstance(id, d, u)
  \/ Mem_getEvents
  \/ \E w \in Windows : Mem_getEventsByDateRange(w[1], w[2])
  \/ \E d \in Drafts : Supabase_createEvent(d)
  \/ \E id \in StoredIds, u \in Updates : Supabase_updateEvent(id, u)
  \/ \E id \in StoredIds : Supabase_deleteEvent(id)
  \/ \E id \in StoredIds, d \in InstanceDates : Supabase_deleteRecurringInstance(id, d)
  \/ \E id \in StoredIds, d \in InstanceDates, u \in InstanceUpdates :
       Supabase_updateRecurringInstance(id, d, u)
  \/ Supabase_getEvents
  \/ \E w \in Windows : Supabase_getEventsByDateRange(w[1], w[2])
  \/ Tick

Spec == Init /\ [][Next]_vars

(***************************************************************************)
(* The while loop of generateRecurringInstances, one pass per step.        *)
(***************************************************************************)
LoopDays == 120

\* Recurring masters handed to generateRecurringInstances: every pattern the
\* switch knows, one it does not know, and the kinds of recurringWeeks; they
\* start on January 2 or on January 31.
LoopMasters ==
  { NewEvent(<<1>>,
      [title |-> "series", description |-> Null,
       startDate |-> t, endDate |-> NoDate,
       isRecurring |-> TRUE, recurringPattern |-> p, recurringWeeks |-> w]) :
    t \in {At(1, 1), At(30, 1)},
    p \in {"daily", "weekly", "monthly", "yearly", "fortnightly"},
    w \in {Null, "indefinite", "2", "0"} }

\* (startDate, endDate) windows of the call.
LoopWindows == { <<At(0, 0), At(LoopDays, 0)>>, <<At(40, 0), At(LoopDays, 0)>> }

\* Exception dates of the master: none, or one occurrence deleted.
LoopExceptionDates == { {}, {At(8, 1)} }

\* The parameters and locals of generateRecurringInstances when the loop is
\* entered (deleted holds the exception dates the key sets are made from);
\* instances holds the startDate of every instance pushed so far.
LoopEntry(baseEvent, startDate, endDate, deleted) ==
  [pc |-> "while",
   baseEvent |-> baseEvent,
   startDate |-> startDate,
   endDate |-> endDate,
   deleted |-> deleted,
   currentDate |-> Max(baseEvent.startDate, startDate),
   seriesEndDate |-> IF impl = "mem" THEN Mem_seriesEndDate(baseEvent, endDate)
                     ELSE Supabase_seriesEndDate(baseEvent, endDate),
   deletedDates |-> IF impl = "mem" THEN { toDateString(d) : d \in deleted }
                    ELSE { format(d) : d \in deleted },
   modifiedDates |-> {},
   iterationCount |-> 0,
   instances |-> <<>>]

\* A loop that tests the cursor alone.
Mem_loopStep_uncapped(l) ==
  IF ~(l.currentDate < l.seriesEndDate)
  THEN [l EXCEPT !.pc = "return"]
  ELSE LET dateString == toDateString(l.currentDate)
           next == Mem_getNextRecurrenceDate(l.currentDate, l.baseEvent.recurringPattern)
       IN  IF dateString \in l.deletedDates \/ dateString \in l.modifiedDates
           THEN [l EXCEPT !.iterationCount = @ + 1, !.currentDate = next]
           ELSE [l EXCEPT !.iterationCount = @ + 1, !.currentDate = next,
                   !.instances = Append(@, Mem_instance(l.baseEvent, l.currentDate).startDate)]

\* One evaluation of the loop condition and, when it holds, of the loop body.
Mem_loopStep(l) ==
  IF ~(l.currentDate < l.seriesEndDate /\ l.iterationCount < maxIterations)
  THEN [l EXCEPT !.pc = "return"]
  ELSE LET dateString == toDateString(l.currentDate)
           next == Mem_getNextRecurrenceDate(l.currentDate, l.baseEvent.recurringPattern)
       IN  IF dateString \in l.deletedDates \/ dateString \in l.modifiedDates
           THEN [l EXCEPT !.iterationCount = @ + 1, !.currentDate = next]
           ELSE [l EXCEPT !.iterationCount = @ + 1, !.currentDate = next,
                   !.instances = Append(@, Mem_instance(l.baseEvent, l.currentDate).startDate)]

\* A loop whose skip branch continues without advancing the cursor.
Supabase_loopStep_stuck(l) ==
  IF ~(l.currentDate < l.seriesEndDate)
  THEN [l EXCEPT !.pc = "return"]
  ELSE LET dateKey == format(l.currentDate)
           next == Supabase_getNextRecurrenceDate(l.currentDate, l.baseEvent.recurringPattern)
       IN  IF dateKey \in l.deletedDates THEN l
           ELSE IF dateKey \in l.modifiedDates THEN l
           ELSE [l EXCEPT !.currentDate = next,
                   !.instances = Append(@, Supabase_instance(l.baseEvent, l.currentDate).startDate)]

Supabase_loopStep(l) ==
  IF ~(l.currentDate < l.seriesEndDate)
  THEN [l EXCEPT !.pc = "return"]
  ELSE LET dateKey == format(l.currentDate)
           next == Supabase_getNextRecurrenceDate(l.currentDate, l.baseEvent.recurringPattern)
       IN  IF dateKey \in l.deletedDates THEN [l EXCEPT !.currentDate = next]
           ELSE IF dateKey \in l.modifiedDates THEN [l EXCEPT !.currentDate = next]
           ELSE [l EXCEPT !.currentDate = next,
                   !.instances = Append(@, Supabase_instance(l.baseEvent, l.currentDate).startDate)]

Mem_generateRecurringInstances_pass ==
  /\ impl = "mem"
  /\ loop.pc = "while"
  /\ loop' = Mem_loopStep(loop)
  /\ UNCHANGED <<impl, now, events, eventExceptions, nextId, log, ret, before, inflight>>

Supabase_generateRecurringInstances_pass ==
  /\ impl = "supabase"
  /\ loop.pc = "while"
  /\ loop' = Supabase_loopStep(loop)
  /\ UNCHANGED <<impl, now, events, eventExceptions, nextId, log, ret, before, inflight>>

InitLoop ==
  /\ impl \in {"mem", "supabase"}
  /\ now = 0
  /\ events = <<>>
  /\ eventExceptions = <<>>
  /\ nextId = 1
  /\ log = <<>>
  /\ ret = <<>>
  /\ before = <<>>
  /\ inflight = NoCalls
  /\ loop \in { LoopEntry(m, w[1], w[2], x) :
                  m \in LoopMasters, w \in LoopWindows, x \in LoopExceptionDates }

NextLoop ==
  \/ Mem_generateRecurringInstances_pass
  \/ Supabase_generateRecurringInstances_pass

\* The call runs on one thread and nothing suspends it: a pass that can be
\* taken is taken.
SpecLoop == InitLoop /\ [][NextLoop]_vars /\ WF_vars(NextLoop)

(***************************************************************************)
(* The in-memory loop on windows longer than maxIterations daily steps.    *)
(***************************************************************************)
\* Daily masters whose series does not end within the window, and one that
\* ends after two weeks.
CapMasters ==
  { NewEvent(<<1>>,
      [title |-> "series", description |-> Null,
       startDate |-> At(1, 1), endDate |-> NoDate,
       isRecurring |-> TRUE, recurringPattern |-> "daily", recurringWeeks |-> w]) :
    w \in {Null, "indefinite", "2"} }

\* Windows that hold more days than the loop may make passes.
CapWindows ==
  { <<At(0, 0), At(maxIterations + 20, 0)>>, <<At(40, 0), At(maxIterations + 60, 0)>> }

InitCap ==
  /\ impl = "mem"
  /\ now = 0
  /\ events = <<>>
  /\ eventExceptions = <<>>
  /\ nextId = 1
  /\ log = <<>>
  /\ ret = <<>>
  /\ before = <<>>
  /\ inflight = NoCalls
  /\ loop \in { LoopEntry(m, w[1], w[2], x) :
                  m \in CapMasters, w \in CapWindows, x \in LoopExceptionDates \cup {{At(50, 0), At(51, 1)}} }

NextCap == Mem_generateRecurringInstances_pass

SpecCap == InitCap /\ [][NextCap]_vars

(***************************************************************************)
(* The store filled with non-recurring events.                             *)
(***************************************************************************)
\* InsertEvent drafts of events that do not recur: one that starts where the
\* window of Windows starts, one that starts where it ends, and one beyond
\* the window and beyond the six months getEvents() looks ahead.
PlainDrafts ==
  { [title |-> "dentist", description |-> Null,
     startDate |-> At(0, 0), endDate |-> At(0, 1),
     isRecurring |-> FALSE, recurringPattern |-> Null, recurringWeeks |-> Null],
    [title |-> "lunch", description |-> Null,
     startDate |-> At(16, 0), endDate |-> NoDate,
     isRecurring |-> FALSE, recurringPattern |-> Null, recurringWeeks |-> Null],
    [title |-> "archive", description |-> Null,
     startDate |-> At(200, 1), endDate |-> NoDate,
     isRecurring |-> FALSE, recurringPattern |-> Null, recurringWeeks |-> Null] }

NextPlain ==
  \/ \E d \in PlainDrafts : MemStorage_createEvent(d)
  \/ \E id \in StoredIds, u \in Updates : MemStorage_updateEvent(id, u)
  \/ \E id \in StoredIds : MemStorage_deleteEvent(id)
  \/ Mem_getEvents
  \/ \E w \in Windows : Mem_getEventsByDateRange(w[1], w[2])
  \/ \E d \in PlainDrafts : Supabase_createEvent(d)
  \/ \E id \in StoredIds, u \in Updates : Supabase_updateEvent(id, u)
  \/ \E id \in StoredIds : Supabase_deleteEvent(id)
  \/ Supabase_getEvents
  \/ \E w \in Windows : Supabase_getEventsByDateRange(w[1], w[2])
  \/ Tick

SpecPlain == Init /\ [][NextPlain]_vars

(***************************************************************************)
(* The event routes with the request bodies a client can send, and the     *)
(* event form of the calendar page.                                        *)
(***************************************************************************)
\* Request bodies of POST /api/events: a well-formed recurring draft, one
\* without a title, a recurring one without a pattern, one that ends before
\* it starts, one that does not recur and still names a pattern, and a
\* recurring one that ends at the instant it starts.
RouteDrafts ==
  { [title |-> "standup", description |-> Null,
     startDate |-> At(2, 0), endDate |-> At(2, 1),
     isRecurring |-> TRUE, recurringPattern |-> "weekly", recurringWeeks |-> "2"],
    [title |-> Null, description |-> Null,
     startDate |-> At(2, 0), endDate |-> NoDate,
     isRecurring |-> FALSE, recurringPattern |-> Null, recurringWeeks |-> Null],
    [title |-> "norule", description |-> Null,
     startDate |-> At(1, 0), endDate |-> NoDate,
     isRecurring |-> TRUE, recurringPattern |-> Null, recurringWeeks |-> "2"],
    [title |-> "backwards", description |-> Null,
     startDate |-> At(5, 0), endDate |-> At(4, 0),
     isRecurring |-> FALSE, recurringPattern |-> Null, recurringWeeks |-> Null],
    [title |-> "leftover", description |-> Null,
     startDate |-> At(6, 0), endDate |-> NoDate,
     isRecurring |-> FALSE, recurringPattern |-> "weekly", recurringWeeks |-> "2"],
    [title |-> "instant", description |-> Null,
     startDate |-> At(3, 1), endDate |-> At(3, 1),
     isRecurring |-> TRUE, recurringPattern |-> "weekly", recurringWeeks |-> "2"] }

\* Request bodies of PUT /api/events/:id.
RouteUpdates == { [isRecurring |-> FALSE] }

\* insertEventSchema.parse: the schema drizzle-zod derives from the table
\* asks for the notNull columns without a default, title and startDate, and
\* relates no field to another.
insertEventSchema_parse(body) == body.title # Null /\ body.startDate # NoDate

\* POST /api/events with a body the schema refuses: the ZodError is answered
\* with 400 and the storage is not called.
Route_postEvents_rejected(body) ==
  /\ ~insertEventSchema_parse(body)
  /\ log' = <<>>
  /\ ret' = Returned("POST /api/events", <<body>>, TRUE, 400)
  /\ before' = <<>>
  /\ UNCHANGED <<impl, loop, inflight, now, events, eventExceptions, nextId>>

\* The generated occurrences on the calendar page.
DisplayedOccurrences ==
  IF log # <<>> /\ LastRead.op = "getEvents"
  THEN { e \in Range(LastRead.ret) : Len(e.id) = 3 }
  ELSE {}

\* The eventData EventModal.handleSubmit builds from the form, the form
\* having been filled from the event that is edited and the title retyped.
EventModal_eventData(event) ==
  [title |-> "edited",
   description |-> event.description,
   startDate |-> event.startDate,
   endDate |-> NoDate,
   isRecurring |-> event.isRecurring,
   recurringPattern |-> IF event.isRecurring
                        THEN (IF event.recurringPattern # Null
                              THEN event.recurringPattern ELSE "weekly")
                        ELSE Null,
   recurringWeeks |-> IF event.isRecurring
                      THEN (IF event.recurringWeeks # Null
                            THEN event.recurringWeeks ELSE "indefinite")
                      ELSE Null]

NextRoutes ==
  \/ \E body \in RouteDrafts :
       insertEventSchema_parse(body) /\ MemStorage_createEvent(body)
  \/ \E body \in RouteDrafts :
       insertEventSchema_parse(body) /\ Supabase_createEvent(body)
  \/ \E body \in RouteDrafts : Route_postEvents_rejected(body)
  \/ \E id \in StoredIds, u \in RouteUpdates : MemStorage_updateEvent(id, u)
  \/ \E id \in StoredIds, u \in RouteUpdates : Supabase_updateEvent(id, u)
  \/ Mem_getEvents
  \/ Supabase_getEvents
  \/ \E o \in DisplayedOccurrences : MemStorage_updateEvent(o.id, EventModal_eventData(o))
  \/ \E o \in DisplayedOccurrences : Supabase_updateEvent(o.id, EventModal_eventData(o))
  \/ Tick

SpecRoutes == Init /\ [][NextRoutes]_vars

(***************************************************************************)
(* SupabaseStorage with a read and an updateRecurringInstance in flight    *)
(* together.  Each step is one statement of the database taking effect,    *)
(* followed by the code up to the next await.                              *)
(***************************************************************************)
Reader == inflight.reader
Writer == inflight.writer

\* getEvents() or getEventsByDateRange(startDate, endDate) is called.
Supabase_read_call(op, args) ==
  /\ Reader.pc = "idle"
  /\ inflight' = [inflight EXCEPT !.reader = [pc |-> "selectEvents", op |-> op, args |-> args]]
  /\ UNCHANGED <<impl, loop, now, events, eventExceptions, nextId, log, ret, before>>

\* await db.select().from(events)...: dbEvents is read, expandRecurringEvents
\* is entered and takes its window.
Supabase_read_selectEvents ==
  /\ Reader.pc = "selectEvents"
  /\ inflight' = [inflight EXCEPT !.reader =
       [pc |-> "selectExceptions", op |-> Reader.op, args |-> Reader.args,
        dbEvents |-> IF Reader.op = "getEvents" THEN Supabase_selectEvents
                     ELSE Supabase_selectEventsInRange(Reader.args[1], Reader.args[2]),
        startDate |-> IF Reader.op = "getEvents" THEN now ELSE Reader.args[1],
        endDate |-> IF Reader.op = "getEvents" THEN addMonths(now, 6) ELSE Reader.args[2]]]
  /\ UNCHANGED <<impl, loop, now, events, eventExceptions, nextId, log, ret, before>>

\* await db.select().from(eventExceptions): the exceptions are read and the
\* for loop fills expandedEvents.
Supabase_read_selectExceptions ==
  /\ Reader.pc = "selectExceptions"
  /\ inflight' = [inflight EXCEPT !.reader =
       [pc |-> "selectModifiedEvents", op |-> Reader.op, args |-> Reader.args,
        expandedEvents |->
          Supabase_expandedEvents(Reader.dbEvents, Reader.startDate, Reader.endDate)]]
  /\ UNCHANGED <<impl, loop, now, events, eventExceptions, nextId, log, ret, before>>

\* await db.select().from(events).where(...): the modified events are read
\* and pushed, the list is sorted and returned.
Supabase_read_selectModifiedEvents ==
  /\ Reader.pc = "selectModifiedEvents"
  /\ log' = Logged(Reader.op, Reader.args,
                   SortByStartDate(Reader.expandedEvents \o Supabase_selectModifiedEvents))
  /\ ret' = <<>>
  /\ before' = <<>>
  /\ inflight' = [inflight EXCEPT !.reader = [pc |-> "idle"]]
  /\ UNCHANGED <<impl, loop, now, events, eventExceptions, nextId>>

\* updateRecurringInstance(parentEventId, instanceDate, updates) is called.
Supabase_update_call(parentEventId, instanceDate, updates) ==
  /\ Writer.pc = "idle"
  /\ Work < MaxWork
  /\ inflight' = [inflight EXCEPT !.writer =
       [pc |-> "getEvent", args |-> <<parentEventId, instanceDate, updates>>]]
  /\ UNCHANGED <<impl, loop, now, events, eventExceptions, nextId, log, ret, before>>

\* await this.getEvent(parentEventId); return null without a parent.
Supabase_update_getEvent ==
  /\ Writer.pc = "getEvent"
  /\ IF HasEvent(Writer.args[1])
     THEN /\ inflight' = [inflight EXCEPT !.writer =
                 [pc |-> "insertEvent", args |-> Writer.args,
                  parentEvent |-> getEvent(Writer.args[1])]]
          /\ UNCHANGED <<log, ret, before>>
     ELSE /\ inflight' = [inflight EXCEPT !.writer = [pc |-> "idle"]]
          /\ log' = <<>>
          /\ ret' = Returned("updateRecurringInstance", Writer.args, FALSE, Null)
          /\ before' = <<>>
  /\ UNCHANGED <<impl, loop, now, events, eventExceptions, nextId>>

\* await db.insert(events).values({...}).returning()
Supabase_update_insertEvent ==
  /\ Writer.pc = "insertEvent"
  /\ events' = Append(events,
       ModifiedEvent(FreshId, Writer.parentEvent, Writer.args[2], Writer.args[3]))
  /\ nextId' = nextId + 1
  /\ inflight' = [inflight EXCEPT !.writer =
       [pc |-> "insertException", args |-> Writer.args,
        modifiedEvent |-> ModifiedEvent(FreshId, Writer.parentEvent,
                                        Writer.args[2], Writer.args[3])]]
  /\ log' = <<>>
  /\ UNCHANGED <<impl, loop, now, eventExceptions, ret, before>>

\* await db.insert(eventExceptions).values({...}); return modifiedEvent[0].
Supabase_update_insertException ==
  /\ Writer.pc = "insertException"
  /\ eventExceptions' = Append(eventExceptions,
       Exception(Writer.args[1], Writer.args[2], "modified", Writer.modifiedEvent.id))
  /\ inflight' = [inflight EXCEPT !.writer = [pc |-> "idle"]]
  /\ log' = <<>>
  /\ ret' = Returned("updateRecurringInstance", Writer.args, FALSE, Writer.modifiedEvent)
  /\ before' = <<>>
  /\ UNCHANGED <<impl, loop, now, events, nextId>>

InitConcurrent == Init /\ impl = "supabase"

NextConcurrent ==
  \/ \E d \in Drafts : Supabase_createEvent(d)
  \/ Supabase_read_call("getEvents", <<>>)
  \/ \E w \in Windows : Supabase_read_call("getEventsByDateRange", w)
  \/ Supabase_read_selectEvents
  \/ Supabase_read_selectExceptions
  \/ Supabase_read_selectModifiedEvents
  \/ \E id \in StoredIds, d \in InstanceDates, u \in InstanceUpdates :
       Supabase_update_call(id, d, u)
  \/ Supabase_update_getEvent
  \/ Supabase_update_insertEvent
  \/ Supabase_update_insertException

SpecConcurrent == InitConcurrent /\ [][NextConcurrent]_vars

(***************************************************************************)
(* Vocabulary of the properties.                                           *)
(***************************************************************************)
DayOf(t) == t \div TicksPerDay

\* e is an occurrence generated for master P (its id is P-recur-...).
IsOccurrenceOf(e, P) == Len(e.id) = 3 /\ e.id[1] = P[1]

Reads(op) == log # <<>> /\ LastRead.op = op

\* End of the default window of a getEvents() call made at clock value at.
DefaultWindowEnd(at) ==
  IF impl = "mem" THEN at + 6 * 30 * TicksPerDay ELSE addMonths(at, 6)

\* The series of master m in the default window, exceptions disregarded.
Unshadowed(m, at) ==
  IF impl = "mem"
  THEN Mem_generateRecurringInstances(m, at, DefaultWindowEnd(at), {}, {})
  ELSE Supabase_generateRecurringInstances(m, at, DefaultWindowEnd(at), {})

IsNumericWeeks(m) == m.recurringWeeks # Null /\ m.recurringWeeks # "indefinite"

\* C1: once a 'deleted' exception for (P, D) is stored, a getEvents() result
\* holds no generated occurrence of P that starts on the calendar day of D.
C1_DeletedShadowing ==
  Reads("getEvents") =>
    \A x \in Range(eventExceptions) :
      x.type = "deleted" =>
        \A e \in Range(LastRead.ret) :
          ~(IsOccurrenceOf(e, x.parentEventId)
            /\ DayOf(e.startDate) = DayOf(x.exceptionDate))

\* A getEvents() answer for a series with a deleted day that lies on the
\* series, other occurrences of the series still being listed.
C1_Witness ==
  /\ Reads("getEvents")
  /\ \E x \in Range(eventExceptions) :
       /\ x.type = "deleted"
       /\ HasEvent(x.parentEventId)
       /\ getEvent(x.parentEventId).isRecurring
       /\ \E e \in Range(Unshadowed(getEvent(x.parentEventId), LastRead.at)) :
            /\ DayOf(e.startDate) = DayOf(x.exceptionDate)
            /\ e.startDate # x.exceptionDate
       /\ \E e \in Range(LastRead.ret) : IsOccurrenceOf(e, x.parentEventId)

\* C2: once a 'deleted' exception for (P, D) is stored, a
\* getEventsByDateRange(S, E) result of the exported storage with D in
\* [S, E] holds no occurrence of P that starts on the calendar day of D.
C2_DeletedShadowingRange ==
  (impl = "mem" /\ Reads("getEventsByDateRange")) =>
    \A x \in Range(eventExceptions) :
      (/\ x.type = "deleted"
       /\ LastRead.args[1] <= x.exceptionDate
       /\ x.exceptionDate <= LastRead.args[2]) =>
        \A e \in Range(LastRead.ret) :
          ~(IsOccurrenceOf(e, x.parentEventId)
            /\ DayOf(e.startDate) = DayOf(x.exceptionDate))

\* C3: after exactly one updateRecurringInstance(P, D, u), a getEvents()
\* result holds no generated occurrence of P on the day of D and holds the
\* standalone modified event exactly once.
C3_ModifiedShadowing ==
  Reads("getEvents") =>
    \A x \in Range(eventExceptions) :
      (/\ x.type = "modified"
       /\ Cardinality({ i \in DOMAIN eventExceptions :
            /\ eventExceptions[i].parentEventId = x.parentEventId
            /\ DayOf(eventExceptions[i].exceptionDate) = DayOf(x.exceptionDate) }) = 1
       /\ HasEvent(x.modifiedEventId)) =>
        /\ \A e \in Range(LastRead.ret) :
             ~(IsOccurrenceOf(e, x.parentEventId)
               /\ DayOf(e.startDate) = DayOf(x.exceptionDate))
        /\ Cardinality({ i \in DOMAIN LastRead.ret :
             LastRead.ret[i].id = x.modifiedEventId }) = 1

\* C4: the exception store never holds two records with the same
\* (parentEventId, exceptionDate).
C4_ExceptionUniqueness ==
  \A i, j \in DOMAIN eventExceptions :
    (/\ eventExceptions[i].parentEventId = eventExceptions[j].parentEventId
     /\ eventExceptions[i].exceptionDate = eventExceptions[j].exceptionDate) => i = j

\* C5: a step that removes a recurring master from the event store leaves
\* no exception record and no standalone modified event that names it as parent.
C5_SeriesCascade ==
  [][\A id \in StoredIds :
       (/\ HasEvent(id)
        /\ getEvent(id).isRecurring
        /\ \A i \in DOMAIN events' : events'[i].id # id) =>
         /\ \A i \in DOMAIN eventExceptions' : eventExceptions'[i].parentEventId # id
         /\ \A i \in DOMAIN events' : events'[i].parentEventId # id]_vars

\* Ids and start instants of the occurrences of m in a read result that start
\* in [from, to).
OccurrencesIn(result, m, from, to) ==
  { <<e.id, e.startDate>> :
      e \in { x \in Range(result) :
                IsOccurrenceOf(x, m.id) /\ x.startDate >= from /\ x.startDate < to } }

\* C6: with the store unchanged, getEvents() at clock t1 and getEvents() at a
\* later clock t2 list, for every recurring master, the same instance ids and
\* start instants within [t2, t1 + 6 months).
C6_ReproducibleIds ==
  [][(/\ log # <<>> /\ log' # <<>>
      /\ LastRead.op = "getEvents" /\ log'[Len(log')].op = "getEvents"
      /\ LastRead.at < log'[Len(log')].at) =>
       \A i \in DOMAIN events :
         events[i].isRecurring =>
           OccurrencesIn(LastRead.ret, events[i],
                         log'[Len(log')].at, DefaultWindowEnd(LastRead.at))
           = OccurrencesIn(log'[Len(log')].ret, events[i],
                           log'[Len(log')].at, DefaultWindowEnd(LastRead.at))]_vars

C8_WindowBound ==
  Reads("getEventsByDateRange") =>
    \A e \in Range(LastRead.ret) :
      Len(e.id) = 3 =>
        LastRead.args[1] <= e.startDate /\ e.startDate < LastRead.args[2]

\* C9: no read of the exported storage returns an occurrence of a master with
\* numeric recurringWeeks = N that starts at or after startDate + N*7 days.
C9_SeriesEndBound ==
  (impl = "mem" /\ log # <<>>) =>
    \A i \in DOMAIN events :
      (events[i].isRecurring /\ IsNumericWeeks(events[i])) =>
        \A e \in Range(LastRead.ret) :
          IsOccurrenceOf(e, events[i].id) =>
            e.startDate < events[i].startDate
                          + parseInt(events[i].recurringWeeks) * 7 * TicksPerDay

\* The read went through generateRecurringInstances.
ReadGenerates == log # <<>> /\ ~(impl = "mem" /\ LastRead.op = "getEventsByDateRange")

ReadWindowStart == IF LastRead.op = "getEvents" THEN LastRead.at ELSE LastRead.args[1]

ReadWindowEnd ==
  IF LastRead.op = "getEvents" THEN DefaultWindowEnd(LastRead.at) ELSE LastRead.args[2]

\* m is a weekly master with N >= 1 weeks, without exceptions, that starts
\* at or after the window start and whose span ends by the window end.
WholeSeriesInWindow(m) ==
  /\ m.isRecurring /\ m.recurringPattern = "weekly"
  /\ IsNumericWeeks(m) /\ parseInt(m.recurringWeeks) >= 1
  /\ \A x \in Range(eventExceptions) : x.parentEventId # m.id
  /\ m.startDate >= ReadWindowStart
  /\ m.startDate + parseInt(m.recurringWeeks) * 7 * TicksPerDay <= ReadWindowEnd

StartsOf(result, m) ==
  LET occ == SelectSeq(result, LAMBDA e : IsOccurrenceOf(e, m.id))
  IN  [k \in DOMAIN occ |-> occ[k].startDate]

\* C10: for such a master generateRecurringInstances yields exactly N
\* occurrences, at startDate + 7*k days for k = 0..N-1, in that order.
C10_SeriesMath ==
  ReadGenerates =>
    \A i \in DOMAIN events :
      WholeSeriesInWindow(events[i]) =>
        StartsOf(LastRead.ret, events[i])
        = [k \in 1..parseInt(events[i].recurringWeeks) |->
             events[i].startDate + (k - 1) * 7 * TicksPerDay]

C10_Witness ==
  /\ ReadGenerates
  /\ \E i \in DOMAIN events :
       /\ WholeSeriesInWindow(events[i])
       /\ parseInt(events[i].recurringWeeks) >= 2
       /\ Len(StartsOf(LastRead.ret, events[i])) >= 2


\* C11: for every recurring master, of any pattern and any recurringWeeks,
\* and every finite window, the loop of generateRecurringInstances comes to
\* its end and hands back the finite list it has built, in both
\* implementations.
C11_Termination == <>(loop.pc = "return")

C11_Witness ==
  /\ loop.pc = "return"
  /\ loop.baseEvent.recurringPattern = "fortnightly"
  /\ loop.baseEvent.recurringWeeks = "indefinite"
  /\ loop.deletedDates # {}
  /\ Len(loop.instances) > 0


\* The last call was the write op and nothing has happened since.
Wrote(op) == ret # <<>> /\ ret[1].op = op

\* e is a stored event of its own that stands for an occurrence of P.
IsStandaloneOf(e, P) == Len(e.id) = 1 /\ e.parentEventId = P

\* e is attributable to the occurrence of P on the calendar day of D.
IsAttributable(e, P, D) ==
  \/ IsOccurrenceOf(e, P) /\ DayOf(e.startDate) = DayOf(D)
  \/ IsStandaloneOf(e, P) /\ DayOf(e.originalDate) = DayOf(D)

\* C12: once a 'deleted' exception for (P, D) is stored, no later instance
\* operation makes an event attributable to occurrence D of P appear in a
\* getEvents() result: neither an occurrence generated for P on the day of D
\* nor a standalone event made for (P, D) after the delete.
C12_DeletedIsTerminal ==
  Reads("getEvents") =>
    \A i \in DOMAIN eventExceptions :
      eventExceptions[i].type = "deleted" =>
        LET P == eventExceptions[i].parentEventId
            D == eventExceptions[i].exceptionDate
        IN  \A e \in Range(LastRead.ret) :
              /\ ~(IsOccurrenceOf(e, P) /\ DayOf(e.startDate) = DayOf(D))
              /\ ~(/\ IsStandaloneOf(e, P)
                   /\ DayOf(e.originalDate) = DayOf(D)
                   /\ \E j \in DOMAIN eventExceptions :
                        j > i /\ eventExceptions[j].modifiedEventId = e.id)

\* C13: the store holds at most one standalone event with a given
\* parentEventId and originalDate, and a read shows at most one event
\* attributable to that occurrence.
C13_ModifiedAtMostOnce ==
  /\ \A i, j \in DOMAIN events :
       (/\ events[i].parentEventId # NoId
        /\ events[i].parentEventId = events[j].parentEventId
        /\ events[i].originalDate = events[j].originalDate) => i = j
  /\ log # <<>> =>
       \A e, f \in Range(LastRead.ret) :
         (/\ IsStandaloneOf(e, e.parentEventId)
          /\ e.parentEventId # NoId
          /\ IsAttributable(f, e.parentEventId, e.originalDate)) => e = f

\* C14: a deleteRecurringInstance whose parentId references no stored event
\* does not report success and adds no exception record, and the DELETE
\* route answers 404.
C14_DeleteInstanceUnknownParent ==
  [][(/\ ret' # <<>>
      /\ ret'[1].op = "deleteRecurringInstance"
      /\ ~HasEvent(ret'[1].args[1]))
     => /\ ret'[1].threw \/ ~ret'[1].value
        /\ eventExceptions' = eventExceptions
        /\ DeleteInstanceRoute_status(ret'[1]) = 404]_vars

\* C15: an updateRecurringInstance whose parentId references no stored
\* event returns null and leaves the event store and the exception store as
\* they were.
C15_UpdateInstanceUnknownParent ==
  [][(/\ ret' # <<>>
      /\ ret'[1].op = "updateRecurringInstance"
      /\ ~HasEvent(ret'[1].args[1]))
     => /\ ~ret'[1].threw
        /\ ret'[1].value = Null
        /\ events' = events
        /\ eventExceptions' = eventExceptions]_vars

C15_Witness ==
  /\ Wrote("updateRecurringInstance")
  /\ ~HasEvent(ret[1].args[1])
  /\ ret[1].value = Null
  /\ events # <<>>

\* C16: a successful updateRecurringInstance(P, D, u) returns and stores a
\* new event that does not recur, names P and D as its parent and original
\* date, and takes title, description and endDate from u where u has them
\* and from the parent otherwise; it adds exactly one exception, of type
\* 'modified' for D and pointing at the new event; the parent and every
\* other stored event stay as they were.
C16_UpdateInstanceResult ==
  [][(/\ ret' # <<>>
      /\ ret'[1].op = "updateRecurringInstance"
      /\ HasEvent(ret'[1].args[1]))
     => LET P == ret'[1].args[1]
            D == ret'[1].args[2]
            u == ret'[1].args[3]
            parent == getEvent(P)
            ev == ret'[1].value
            from(field) == IF field \in DOMAIN u THEN u[field] ELSE parent[field]
        IN  /\ ~ret'[1].threw
            /\ ~ev.isRecurring
            /\ ev.recurringPattern = Null
            /\ ev.recurringWeeks = Null
            /\ ev.parentEventId = P
            /\ ev.originalDate = D
            /\ ev.title = from("title")
            /\ ev.description = from("description")
            /\ ev.endDate = from("endDate")
            /\ ~HasEvent(ev.id)
            /\ events' = Append(events, ev)
            /\ eventExceptions' = Append(eventExceptions,
                 [parentEventId |-> P, exceptionDate |-> D,
                  type |-> "modified", modifiedEventId |-> ev.id])]_vars

C16_Witness ==
  /\ Wrote("updateRecurringInstance")
  /\ HasEvent(ret[1].args[1])
  /\ getEvent(ret[1].args[1]).isRecurring
  /\ ret[1].value.title = "moved"
  /\ ret[1].value.endDate = getEvent(ret[1].args[1]).endDate
  /\ ret[1].value.endDate # NoDate

\* The instant a reader of the id gets from the text behind '-recur-': the
\* midnight of the day when the text is a yyyy-MM-dd date, the number
\* itself when it is a number.
InstantOfIdPart(part) ==
  IF impl = "supabase"
  THEN MakeDay(part[1], part[2], part[3]) * TicksPerDay
  ELSE part

\* C17: the id of every generated occurrence in a read result splits at
\* '-recur-' into the id of its stored master and a second part that gives
\* back the exact instant at which the occurrence starts.
C17_IdRoundTrip ==
  log # <<>> =>
    \A e \in Range(LastRead.ret) :
      Len(e.id) = 3 =>
        /\ \E m \in Range(events) : m.id = <<e.id[1]>> /\ m.isRecurring
        /\ InstantOfIdPart(e.id[3]) = e.startDate

\* What getEvents() answers in the current state.
GetEventsResult ==
  IF impl = "mem" THEN Mem_expandRecurringEvents(events)
  ELSE Supabase_expandRecurringEvents(Supabase_selectEvents, now, addMonths(now, 6))

\* deleteRecurringInstance changes no stored event.
DeleteInstanceKeepsEvents ==
  [][(ret' # <<>> /\ ret'[1].op = "deleteRecurringInstance") => events' = events]_vars

\* C18: deleteRecurringInstance(P, D) leaves every stored event as it was,
\* and what getEvents() answers after it is what it answered before it, at
\* the same clock value, without the occurrences of P on the calendar day
\* of D.
C18_DeleteInstanceFrame ==
  /\ [](Wrote("deleteRecurringInstance") =>
         GetEventsResult =
           SelectSeq(before, LAMBDA e :
             ~(/\ IsOccurrenceOf(e, ret[1].args[1])
               /\ DayOf(e.startDate) = DayOf(ret[1].args[2]))))
  /\ DeleteInstanceKeepsEvents

C18_Witness ==
  /\ Wrote("deleteRecurringInstance")
  /\ ~ret[1].threw
  /\ HasEvent(ret[1].args[1])
  /\ Cardinality(Range(events)) > 1
  /\ \E e \in Range(Unshadowed(getEvent(ret[1].args[1]), now)) :
       DayOf(e.startDate) = DayOf(ret[1].args[2])
  /\ \E e \in Range(GetEventsResult) : IsOccurrenceOf(e, ret[1].args[1])
  /\ Len(GetEventsResult) < Len(before)

\* C19: every read result, of getEvents and of getEventsByDateRange, in
\* both implementations, is in non-decreasing order of startDate.
C19_SortedReads ==
  \A k \in DOMAIN log :
    \A i \in 1..(Len(log[k].ret) - 1) :
      log[k].ret[i].startDate <= log[k].ret[i + 1].startDate

C19_Witness ==
  /\ log # <<>>
  /\ Len(LastRead.ret) > 2
  /\ \E i, j \in DOMAIN events :
       i < j /\ events[i].startDate > events[j].startDate
  /\ \E i, j \in DOMAIN LastRead.ret :
       i < j /\ LastRead.ret[i].id[1] > LastRead.ret[j].id[1]

\* m is a stored event that neither recurs nor stands for an occurrence.
IsPlainMaster(m) == ~m.isRecurring /\ m.parentEventId = NoId

\* C20: getEvents() returns every stored non-recurring master whatever its
\* startDate; getEventsByDateRange(S, E) returns a stored non-recurring
\* master exactly when S <= startDate <= E.
C20_NonRecurringAsymmetry ==
  log # <<>> =>
    \A m \in Range(events) :
      IsPlainMaster(m) =>
        IF LastRead.op = "getEvents"
        THEN m \in Range(LastRead.ret)
        ELSE m \in Range(LastRead.ret)
               <=> (LastRead.args[1] <= m.startDate /\ m.startDate <= LastRead.args[2])

C20_Witness ==
  /\ Reads("getEventsByDateRange")
  /\ \E m \in Range(events) :
       IsPlainMaster(m) /\ m.startDate = LastRead.args[2] /\ m \in Range(LastRead.ret)
  /\ \E m \in Range(events) :
       IsPlainMaster(m) /\ m.startDate > LastRead.args[2] /\ m \notin Range(LastRead.ret)

\* A getEvents() result holds plain masters of the past and of the time
\* beyond the six months the call looks ahead.
C20_WitnessAll ==
  /\ Reads("getEvents")
  /\ \E m \in Range(LastRead.ret) : IsPlainMaster(m) /\ m.startDate < LastRead.at
  /\ \E m \in Range(LastRead.ret) :
       IsPlainMaster(m) /\ m.startDate > DefaultWindowEnd(LastRead.at)


\* A draft that asks for recurrence without saying how, or that ends before
\* it starts.
IsMalformedDraft(d) ==
  \/ d.isRecurring /\ (d.recurringPattern = Null \/ d.recurringWeeks = Null)
  \/ d.endDate # NoDate /\ d.endDate < d.startDate

\* C21: a create request whose draft recurs without a recurringPattern or
\* without recurringWeeks, or whose endDate is before its startDate, is
\* refused with a validation error and adds nothing to the event store.
C21_ValidationOnCreate ==
  [][(/\ ret' # <<>>
      /\ ret'[1].op \in {"POST /api/events", "createEvent"}
      /\ IsMalformedDraft(ret'[1].args[1]))
     => /\ ret'[1].op = "POST /api/events"
        /\ ret'[1].value = 400
        /\ events' = events]_vars

\* C22: every stored event that does not recur has neither a
\* recurringPattern nor recurringWeeks.
C22_StoredEventInvariant ==
  \A e \in Range(events) :
    ~e.isRecurring => e.recurringPattern = Null /\ e.recurringWeeks = Null


\* C25: when the event form is submitted for a displayed generated
\* occurrence of a stored master P under 'This event only', the store ends
\* with a 'modified' exception of P for the day of that occurrence and a
\* standalone event that carries the edits, and the record of P is as it
\* was.
C25_EditThisEventOnly ==
  [][(/\ ret' # <<>>
      /\ ret'[1].op = "updateEvent"
      /\ Len(ret'[1].args[1]) = 3
      /\ HasEvent(<<ret'[1].args[1][1]>>))
     => LET P == <<ret'[1].args[1][1]>>
            eventData == ret'[1].args[2]
        IN  /\ \E x \in Range(eventExceptions') :
                 /\ x.type = "modified"
                 /\ x.parentEventId = P
                 /\ DayOf(x.exceptionDate) = DayOf(eventData.startDate)
                 /\ \E e \in Range(events') :
                      /\ e.id = x.modifiedEventId
                      /\ e.parentEventId = P
                      /\ e.title = eventData.title
            /\ \E m \in Range(events') : m = getEvent(P)]_vars

\* C27: a generated occurrence of a master with an endDate ends as long
\* after its start as the master does, a master that ends at the instant it
\* starts included; it has no endDate exactly when the master has none.
C27_DurationPreservation ==
  Reads("getEvents") =>
    \A m \in Range(events) :
      \A e \in Range(LastRead.ret) :
        IsOccurrenceOf(e, m.id) =>
          /\ m.endDate # NoDate => e.endDate = e.startDate + (m.endDate - m.startDate)
          /\ e.endDate = NoDate <=> m.endDate = NoDate


\* The pattern step of the implementation in use.
PatternStep(t, pattern) ==
  IF impl = "mem" THEN Mem_getNextRecurrenceDate(t, pattern)
  ELSE Supabase_getNextRecurrenceDate(t, pattern)

\* t is cursor advanced by k pattern steps for some k >= 0.
RECURSIVE OnSeriesGrid(_, _, _)
OnSeriesGrid(pattern, cursor, t) ==
  IF cursor > t THEN FALSE
  ELSE IF cursor = t THEN TRUE
  ELSE OnSeriesGrid(pattern, PatternStep(cursor, pattern), t)

\* C23: whatever the window start is, every occurrence that
\* generateRecurringInstances emits for a master starts at the master's
\* startDate advanced by k pattern steps for some k >= 0.
C23_SeriesGrid ==
  ReadGenerates =>
    \A m \in Range(events) :
      \A e \in Range(LastRead.ret) :
        IsOccurrenceOf(e, m.id) =>
          OnSeriesGrid(m.recurringPattern, m.startDate, e.startDate)


\* The passes of the loop so far that pushed nothing.
SkippedPasses == loop.iterationCount - Len(loop.instances)

\* C26: the in-memory loop makes at most 500 passes, the passes that skip a
\* deleted or modified date counted, so it hands back at most 500
\* occurrences; when the cap ends the loop it returns what it has pushed so
\* far: one start date per pass that did not skip, in increasing order.
C26_IterationCap ==
  /\ loop.iterationCount <= maxIterations
  /\ Len(loop.instances) <= maxIterations
  /\ SkippedPasses >= 0
  /\ SkippedPasses <= Cardinality(loop.deletedDates)
  /\ \A i \in 1..(Len(loop.instances) - 1) : loop.instances[i] < loop.instances[i + 1]
  /\ (loop.pc = "return" /\ loop.currentDate < loop.seriesEndDate)
       => /\ loop.iterationCount = maxIterations
          /\ Len(loop.instances) = maxIterations - SkippedPasses

C26_Witness ==
  /\ loop.pc = "return"
  /\ loop.currentDate < loop.seriesEndDate
  /\ loop.iterationCount = maxIterations
  /\ SkippedPasses = 2
  /\ Len(loop.instances) = maxIterations - 2

\* The months since year 0 up to the month of instant t.
MonthIndex(t) == ToYMD(t)[1] * 12 + ToYMD(t)[2]

\* C28: the occurrences of a monthly master that starts on day-of-month d
\* fall in consecutive calendar months, none skipped, and on day d in every
\* month that has a day d.
C28_MonthlyStepping ==
  (/\ loop.baseEvent.recurringPattern = "monthly"
   /\ loop.deleted = {}
   /\ loop.startDate <= loop.baseEvent.startDate)
  => \A i \in DOMAIN loop.instances :
       LET ymd == ToYMD(loop.instances[i])
           d == ToYMD(loop.baseEvent.startDate)[3]
       IN  /\ MonthIndex(loop.instances[i])
                = MonthIndex(loop.baseEvent.startDate) + (i - 1)
           /\ DaysInMonth(ymd[1], ymd[2]) >= d => ymd[3] = d

\* The start and end dates of a list of occurrences.
StartsAndEnds(instances) ==
  [i \in DOMAIN instances |-> <<instances[i].startDate, instances[i].endDate>>]

\* C30: for the same master, window and exception dates, the in-memory
\* generateRecurringInstances and the Supabase one return the same sequence
\* of occurrence start dates and end dates.
C30_BackendEquivalence ==
  loop.pc = "return" =>
    StartsAndEnds(Mem_generateRecurringInstances(loop.baseEvent,
        loop.startDate, loop.endDate,
        { toDateString(d) : d \in loop.deleted }, {}))
    = StartsAndEnds(Supabase_generateRecurringInstances(loop.baseEvent,
        loop.startDate, loop.endDate,
        { Exception(loop.baseEvent.id, d, "deleted", NoId) : d \in loop.deleted }))


\* The calendar days for which an exception of parent id is stored.
ExceptionDays(id) ==
  { DayOf(x.exceptionDate) : x \in { y \in Range(eventExceptions) : y.parentEventId = id } }

\* C29: an exception stored for parent P with an exceptionDate on calendar
\* day X, at whatever time of day, takes the generated occurrence of P on
\* day X out of a getEvents() result and nothing else: the occurrences
\* listed for a master are those of its series in the window whose day
\* carries no exception of that master.
C29_DayGranularity ==
  Reads("getEvents") =>
    \A m \in Range(events) :
      m.isRecurring =>
        StartsOf(LastRead.ret, m)
          = StartsOf(SelectSeq(Unshadowed(m, LastRead.at),
                       LAMBDA e : DayOf(e.startDate) \notin ExceptionDays(m.id)), m)

C29_Witness ==
  /\ Reads("getEvents")
  /\ \E x \in Range(eventExceptions) :
       /\ HasEvent(x.parentEventId)
       /\ \E e \in Range(Unshadowed(getEvent(x.parentEventId), LastRead.at)) :
            /\ DayOf(e.startDate) = DayOf(x.exceptionDate)
            /\ e.startDate # x.exceptionDate
       /\ \E e \in Range(LastRead.ret) :
            /\ IsOccurrenceOf(e, x.parentEventId)
            /\ DayOf(e.startDate) # DayOf(x.exceptionDate)
       /\ \E e \in Range(LastRead.ret) :
            /\ Len(e.id) = 3
            /\ ~IsOccurrenceOf(e, x.parentEventId)
            /\ DayOf(e.startDate) = DayOf(x.exceptionDate)


\* C24: no result of a SupabaseStorage read, whatever updateRecurringInstance
\* call was in flight while it was computed, holds both the generated
\* occurrence of a parent P on the day of D and the standalone event made
\* for (P, D).
C24_NoDoubleUnderConcurrency ==
  log # <<>> =>
    \A e, f \in Range(LastRead.ret) :
      ~(/\ Len(f.id) = 1
        /\ f.parentEventId # NoId
        /\ IsOccurrenceOf(e, f.parentEventId)
        /\ DayOf(e.startDate) = DayOf(f.originalDate))

====
